---- MODULE Spec2Model ----
(***************************************************************************)
(* Jewelry Box: a Telegram bot that relays the text messages of a single   *)
(* authorized user to a Waveshare e-paper display (src/jewelrybox.py).     *)
(*                                                                         *)
(* Two specifications share the operators that model display_message:      *)
(*   Spec      the bot: startup self-test, the four handlers, cleanup;     *)
(*   SpecWrap  the text layout of display_message alone (wrap loop, draw   *)
(*             loop), applied to every text of a bounded set.              *)
(* A text is a sequence of one-character strings.                          *)
(***************************************************************************)
EXTENDS Integers, Sequences, FiniteSets

\* ---------------------------------------------------------------- bounds
\* Longest text laid out under SpecWrap.
MaxLen == 6
\* Longest text of a message event under Spec.
MaxMsgLen == 2
\* The panel's native width (epd.width); after the swap of line 153 it is
\* the height of the drawing area.  62 leaves room for exactly two lines.
EPD_WIDTH == 62
\* The panel's native height (epd.height); after the swap of line 152 it is
\* the width of the drawing area.
EPD_HEIGHT == 14

\* ------------------------------------------------------------- constants
\* The single configured identity (line 71) and the senders of the model.
CHAT_ID == 1
Senders == {CHAT_ID, CHAT_ID + 1}
\* handle_message renders with font_size=24 (line 220).
MessageFontSize == 24

Alphabet == {"i", "W", " ", "\n"}

RECURSIVE SeqsUpTo(_, _)
SeqsUpTo(S, n) ==
    IF n = 0 THEN {<<>>}
    ELSE LET shorter == SeqsUpTo(S, n - 1)
         IN  shorter \cup {Append(s, c) : s \in {t \in shorter : Len(t) = n - 1}, c \in S}

\* The texts laid out under SpecWrap, and the (fewer) texts of the message
\* events under Spec, where every text meets every state of the display.
Texts == SeqsUpTo(Alphabet, MaxLen)
MsgTexts == SeqsUpTo({"W", " "}, MaxMsgLen)

\* ------------------------------------------------------------------ fonts
\* Lines 144-149: 18 -> font18, 24 -> font24, anything else -> font18.
SelectFont(font_size) ==
    IF font_size = 18 THEN "font18"
    ELSE IF font_size = 24 THEN "font24"
    ELSE "font18"

\* The advance of one character in a font.  A line feed is measured like
\* any other glyph: FreeTypeFont.getlength does no multi-line handling.
CharWidth(font, c) ==
    IF font = "font24"
    THEN CASE c = "W" -> 3
           [] OTHER   -> 1
    ELSE CASE c = "W" -> 2
           [] OTHER   -> 1

\* current_font.getlength(s), line 161.
RECURSIVE getlength(_, _)
getlength(font, s) ==
    IF s = <<>> THEN 0 ELSE CharWidth(font, Head(s)) + getlength(font, Tail(s))

\* ------------------------------------------------------------ text layout
\* text.split(' '), line 157: splits at every single space and nowhere
\* else, so consecutive spaces give empty words and "" gives [""].
RECURSIVE split(_)
split(s) ==
    IF s = <<>> THEN << <<>> >>
    ELSE LET rest == split(Tail(s))
         IN  IF Head(s) = " "
             THEN << <<>> >> \o rest
             ELSE << <<Head(s)>> \o Head(rest) >> \o Tail(rest)

\* The wrap loop with the test of line 161 made on current_line where the
\* code makes it on test_line.
RECURSIVE WrapLoopTestsCurrent(_, _, _, _, _)
WrapLoopTestsCurrent(words, current_line, lines, font, display_width) ==
    IF words = <<>>
    THEN IF current_line # <<>> THEN Append(lines, current_line) ELSE lines
    ELSE LET word == Head(words)
             sep == IF current_line # <<>> THEN <<" ">> ELSE <<>>
         IN  IF getlength(font, current_line) <= display_width - 10
             THEN WrapLoopTestsCurrent(Tail(words), current_line \o sep \o word,
                                       lines, font, display_width)
             ELSE WrapLoopTestsCurrent(Tail(words), word,
                                       Append(lines, current_line),
                                       font, display_width)

\* The wrap loop, lines 159-167, from its state (current_line, lines) with
\* the words still to be placed.
RECURSIVE WrapLoop(_, _, _, _, _)
WrapLoop(words, current_line, lines, font, display_width) ==
    IF words = <<>>
    THEN IF current_line # <<>> THEN Append(lines, current_line) ELSE lines
    ELSE LET word == Head(words)
             sep == IF current_line # <<>> THEN <<" ">> ELSE <<>>
             test_line == current_line \o sep \o word
         IN  IF getlength(font, test_line) <= display_width - 10
             THEN WrapLoop(Tail(words), current_line \o sep \o word, lines,
                           font, display_width)
             ELSE WrapLoop(Tail(words), word, Append(lines, current_line),
                           font, display_width)

\* Lines 156-167.
WrapText(text, font, display_width) ==
    WrapLoop(split(text), <<>>, <<>>, font, display_width)

\* The draw loop with the test of line 173 made with >= where the code has >.
RECURSIVE DrawLoopOffByOne(_, _, _, _, _)
DrawLoopOffByOne(lines, y_offset, line_height, display_height, drawn) ==
    IF lines = <<>> THEN drawn
    ELSE IF y_offset + line_height >= display_height - 5 THEN drawn
    ELSE DrawLoopOffByOne(Tail(lines), y_offset + line_height, line_height,
                          display_height,
                          Append(drawn, [x |-> 5, y |-> y_offset, line |-> Head(lines)]))

\* The draw loop, lines 172-176: the text drawn at (5, y_offset) per line.
RECURSIVE DrawLoop(_, _, _, _, _)
DrawLoop(lines, y_offset, line_height, display_height, drawn) ==
    IF lines = <<>> THEN drawn
    ELSE IF y_offset + line_height > display_height - 5 THEN drawn
    ELSE DrawLoop(Tail(lines), y_offset + line_height, line_height,
                  display_height,
                  Append(drawn, [x |-> 5, y |-> y_offset, line |-> Head(lines)]))

\* Lines 169-176.
DrawLines(lines, font_size, display_height) ==
    DrawLoop(lines, 5, font_size + 2, display_height, <<>>)

\* The black plane display_message composes for a text, lines 143-176.
RenderFrame(text, font_size) ==
    DrawLines(WrapText(text, SelectFont(font_size), EPD_HEIGHT), font_size, EPD_WIDTH)

\* ------------------------------------------------------------ display sink
SinkOps == {"wake", "clear", "paint", "sleep"}

\* What a sink call that returns normally does to the display, as the code
\* states it where it makes the call: epd.init() wakes it (line 134),
\* epd.Clear() blanks it (97, 100), epd.display(...) shows the frame (182),
\* epd.sleep() puts it to sleep (98, 185).  A call that raises leaves the
\* display as it was.
SinkCall(op, sink, frame) ==
    CASE op = "wake"  -> [sink EXCEPT !.power = "Active"]
      [] op = "clear" -> [sink EXCEPT !.content = <<>>]
      [] op = "paint" -> [sink EXCEPT !.content = frame]
      [] op = "sleep" -> [sink EXCEPT !.power = "Asleep"]
      [] OTHER        -> sink

\* The body of a try block: the steps run in order until one raises.  fail
\* names the step that raises ("none": no step does).  run is
\* [sink, calls, error]: the display, the calls that reached it (each with
\* the power state it found and whether it returned), and the step that
\* raised.  "render" stands for the image, font and rotation work between
\* the sink calls of display_message; it is no sink call.
RECURSIVE TryBlock(_, _, _, _)
TryBlock(steps, fail, frame, run) ==
    IF steps = <<>> THEN run
    ELSE LET op == Head(steps)
             call == [op |-> op, pre |-> run.sink.power, ok |-> op # fail]
             calls == IF op \in SinkOps THEN Append(run.calls, call) ELSE run.calls
         IN  IF op = fail
             THEN [run EXCEPT !.calls = calls, !.error = op]
             ELSE TryBlock(Tail(steps), fail, frame,
                           [run EXCEPT !.sink = SinkCall(op, run.sink, frame),
                                       !.calls = calls])

StartRun(sink) == [sink |-> sink, calls |-> <<>>, error |-> "none"]

\* Lines 93-100: init, Clear, sleep.
StartupSteps == <<"wake", "clear", "sleep">>
\* display_message without the epd.init() of line 135.
DisplayStepsNoWake == <<"render", "paint", "sleep">>
\* Lines 135-186: init, compose the frame, display, sleep.
DisplaySteps == <<"wake", "render", "paint", "sleep">>
\* clear_command with a second epd.Clear() after the one of line 233.
ClearStepsTwice == <<"wake", "clear", "clear", "sleep">>
\* Lines 232-234: init, Clear, sleep.
ClearSteps == <<"wake", "clear", "sleep">>

Range(s) == {s[i] : i \in 1..Len(s)}

\* display_message(text, font_size), lines 132-189: the try block, whose
\* except clause (188-189) logs the error and returns normally.
display_message(text, font_size, fail, sink) ==
    TryBlock(DisplaySteps, fail, RenderFrame(text, font_size), StartRun(sink))

\* A handler without the comparison of the sender with CHAT_ID.
AuthorizedAnyone(user_id) == TRUE

\* The comparison of lines 202, 215, 227 and 245.
Authorized(user_id) == user_id = CHAT_ID

\* shutdown_command without the call of line 252.
StopApplicationOmitted(p) == p

\* context.application.stop(), line 252.
StopApplication(p) == "stopped"

\* ------------------------------------------------------------------ state
VARIABLES
    phase,       \* "boot", "serving", "stopped" (loop ended), "exited"
    sink,        \* [power, content] of the display
    moduleOpen,  \* the driver module has not been torn down (module_exit)
    event,       \* the last inbound event handled: [kind, sender, text, fail]
    before,      \* the sink as that event's handler found it
    calls,       \* the sink calls of the last handler (or of the startup)
    replies,     \* the replies sent to the last event
    text,        \* SpecWrap: the text being laid out
    lines,       \* SpecWrap: the lines of the wrap loop
    drawn,       \* SpecWrap: the lines drawn by the draw loop
    pc           \* SpecWrap: "wrap", "draw", "done"; "bot" under Spec

vars == <<phase, sink, moduleOpen, event, before, calls, replies, text, lines, drawn, pc>>
layoutVars == <<text, lines, drawn, pc>>
botVars == <<phase, sink, moduleOpen, event, before, calls, replies>>

NoEvent == [kind |-> "none", sender |-> CHAT_ID, text |-> <<>>, fail |-> "none"]
Reply(kind) == [kind |-> kind]

\* The process before line 93: the panel is powered but was not woken.
Init ==
    /\ phase = "boot"
    /\ sink = [power |-> "Asleep", content |-> <<>>]
    /\ moduleOpen = TRUE
    /\ event = NoEvent
    /\ before = sink
    /\ calls = <<>>
    /\ replies = <<>>
    /\ text = <<>>
    /\ lines = <<>>
    /\ drawn = <<>>
    /\ pc = "bot"

\* Lines 93-103 and 129: the self-test; a failure is fatal (exit(1) before
\* cleanup is registered), success leads on to the serving loop.
Startup ==
    /\ phase = "boot"
    /\ \E fail \in Range(StartupSteps) \cup {"none"} :
          LET run == TryBlock(StartupSteps, fail, <<>>, StartRun(sink))
          IN  /\ sink' = run.sink
              /\ calls' = run.calls
              /\ phase' = IF run.error = "none" THEN "serving" ELSE "exited"
    /\ UNCHANGED <<moduleOpen, event, before, replies, layoutVars>>

\* start_command, lines 199-207.
start_command ==
    /\ phase = "serving"
    /\ \E user_id \in Senders :
          /\ event' = [kind |-> "start", sender |-> user_id, text |-> <<>>, fail |-> "none"]
          /\ replies' = IF ~Authorized(user_id)
                        THEN <<Reply("rejection")>>
                        ELSE <<Reply("success")>>
    /\ before' = sink
    /\ calls' = <<>>
    /\ UNCHANGED <<phase, sink, moduleOpen, layoutVars>>

\* handle_message, lines 210-221.
handle_message ==
    /\ phase = "serving"
    /\ \E user_id \in Senders, message_text \in MsgTexts,
          fail \in Range(DisplaySteps) \cup {"none"} :
          /\ ~Authorized(user_id) => fail = "none"
          /\ event' = [kind |-> "text", sender |-> user_id,
                       text |-> message_text, fail |-> fail]
          /\ IF ~Authorized(user_id)
             THEN /\ replies' = <<Reply("rejection")>>
                  /\ calls' = <<>>
                  /\ sink' = sink
             ELSE LET run == display_message(message_text, MessageFontSize, fail, sink)
                  IN  /\ sink' = run.sink
                      /\ calls' = run.calls
                      /\ replies' = <<Reply("success")>>
    /\ before' = sink
    /\ UNCHANGED <<phase, moduleOpen, layoutVars>>

\* clear_command, lines 224-239.
clear_command ==
    /\ phase = "serving"
    /\ \E user_id \in Senders, fail \in Range(ClearSteps) \cup {"none"} :
          /\ ~Authorized(user_id) => fail = "none"
          /\ event' = [kind |-> "clear", sender |-> user_id, text |-> <<>>, fail |-> fail]
          /\ IF ~Authorized(user_id)
             THEN /\ replies' = <<Reply("rejection")>>
                  /\ calls' = <<>>
                  /\ sink' = sink
             ELSE LET run == TryBlock(ClearSteps, fail, <<>>, StartRun(sink))
                  IN  /\ sink' = run.sink
                      /\ calls' = run.calls
                      /\ replies' = IF run.error = "none"
                                    THEN <<Reply("success")>>
                                    ELSE <<Reply("error")>>
    /\ before' = sink
    /\ UNCHANGED <<phase, moduleOpen, layoutVars>>

\* shutdown_command, lines 242-252.
shutdown_command ==
    /\ phase = "serving"
    /\ \E user_id \in Senders :
          /\ event' = [kind |-> "shutdown", sender |-> user_id, text |-> <<>>, fail |-> "none"]
          /\ IF ~Authorized(user_id)
             THEN /\ replies' = <<Reply("rejection")>>
                  /\ phase' = phase
             ELSE /\ replies' = <<Reply("success")>>
                  /\ phase' = StopApplication(phase)
    /\ before' = sink
    /\ calls' = <<>>
    /\ UNCHANGED <<sink, moduleOpen, layoutVars>>

\* cleanup, lines 118-126, run by atexit once the serving loop has ended:
\* module_exit() tears the driver module down; if it raises, the error is
\* logged and the process exits all the same.
cleanup ==
    /\ phase = "stopped"
    /\ \E ok \in BOOLEAN : moduleOpen' = IF ok THEN FALSE ELSE moduleOpen
    /\ phase' = "exited"
    /\ UNCHANGED <<sink, event, before, calls, replies, layoutVars>>

Next ==
    \/ Startup
    \/ start_command
    \/ handle_message
    \/ clear_command
    \/ shutdown_command
    \/ cleanup

Spec == Init /\ [][Next]_vars

\* --------------------------------------------------- the layout on its own
InitWrap ==
    /\ phase = "boot"
    /\ sink = [power |-> "Asleep", content |-> <<>>]
    /\ moduleOpen = TRUE
    /\ event = NoEvent
    /\ before = sink
    /\ calls = <<>>
    /\ replies = <<>>
    /\ text \in Texts
    /\ lines = <<>>
    /\ drawn = <<>>
    /\ pc = "wrap"

\* Lines 156-167 applied to the text.
Wrap ==
    /\ pc = "wrap"
    /\ lines' = WrapText(text, SelectFont(MessageFontSize), EPD_HEIGHT)
    /\ pc' = "draw"
    /\ UNCHANGED <<text, drawn, botVars>>

\* Lines 169-176 applied to the lines.
Draw ==
    /\ pc = "draw"
    /\ drawn' = DrawLines(lines, MessageFontSize, EPD_WIDTH)
    /\ pc' = "done"
    /\ UNCHANGED <<text, lines, botVars>>

NextWrap ==
    \/ Wrap
    \/ Draw

SpecWrap == InitWrap /\ [][NextWrap]_vars

\* ------------------------------------------------- properties of the bot
Min(a, b) == IF a < b THEN a ELSE b
CallOps(cs) == [i \in DOMAIN cs |-> cs[i].op]
Handled == event.kind # "none"
FromAuthorized == event.sender = CHAT_ID

\* C1: after the startup self-test, whenever no handler is running the
\* display is Asleep, whatever the outcome of the sink calls was.
C1_AsleepAtRest ==
    phase = "serving" => sink.power = "Asleep"

\* C2: every inbound event gets exactly one reply, and its kind matches the
\* outcome: a rejection for an unauthorized sender, an error description
\* when a step of the event's display work failed, a success acknowledgment
\* only when the operation completed.
C2_OneMatchingReply ==
    Handled =>
        replies = << Reply(IF ~FromAuthorized THEN "rejection"
                           ELSE IF event.fail # "none" THEN "error"
                           ELSE "success") >>

\* C3: an event of any kind from a sender other than the configured identity
\* makes no sink call, does not stop the serving loop, is answered by exactly
\* a rejection, and leaves the display (power and content) as it found it.
C3_UnauthorizedIsInert ==
    (Handled /\ ~FromAuthorized) =>
        /\ calls = <<>>
        /\ replies = <<Reply("rejection")>>
        /\ sink = before
        /\ phase = "serving"

C3_Witness ==
    /\ event.kind = "clear"
    /\ ~FromAuthorized
    /\ sink.content # <<>>
    /\ sink.power = "Active"

\* C4: a clear command from the authorized identity, when no sink call
\* fails, makes the sink receive exactly wake, clear, sleep, in that order.
C4_ClearSequence ==
    (event.kind = "clear" /\ FromAuthorized /\ event.fail = "none") =>
        /\ CallOps(calls) = <<"wake", "clear", "sleep">>
        /\ \A i \in DOMAIN calls : calls[i].ok

C4_Witness ==
    /\ event.kind = "clear"
    /\ FromAuthorized
    /\ event.fail = "none"
    /\ before.content # <<>>
    /\ sink.content = <<>>

\* C5: a shutdown command from the authorized identity stops the serving
\* loop without any sink call and leaves the display as it found it; once
\* the loop has stopped no further event is handled.
C5_ShutdownStops ==
    /\ [](/\ (event.kind = "shutdown" /\ FromAuthorized) =>
                 /\ phase \in {"stopped", "exited"}
                 /\ calls = <<>>
                 /\ sink = before
          /\ (Handled /\ phase \in {"stopped", "exited"}) =>
                 (event.kind = "shutdown" /\ FromAuthorized))
    /\ [][(phase \in {"stopped", "exited"})
              => (UNCHANGED <<event, sink, before, calls, replies>>)]_vars

C5_Witness ==
    /\ phase = "stopped"
    /\ event.kind = "shutdown"
    /\ FromAuthorized
    /\ sink.content # <<>>
    /\ sink.power = "Active"

\* C9: every paint and every clear call reaches the display while it is
\* Active: a wake call that returned precedes it in the same handler, with
\* no sleep call in between, also after an earlier handler has failed.
C9_PaintOnlyWhileActive ==
    \A i \in DOMAIN calls :
        calls[i].op \in {"paint", "clear"} =>
            /\ calls[i].pre = "Active"
            /\ \E j \in 1..(i - 1) :
                  /\ calls[j].op = "wake"
                  /\ calls[j].ok
                  /\ \A k \in (j + 1)..(i - 1) : calls[k].op # "sleep"

C9_Witness ==
    /\ before.power = "Active"
    /\ event.kind = "text"
    /\ \E i \in DOMAIN calls : calls[i].op = "paint" /\ calls[i].ok

\* ---------------------------------------------- properties of the layout
LayoutFont == SelectFont(MessageFontSize)
usable_width == EPD_HEIGHT - 10
Wrapped == pc \in {"draw", "done"}
IsWide(s) == getlength(LayoutFont, s) > usable_width

\* The tokens of a text delimited by white space of any kind.
RECURSIVE WhitespaceTokens(_)
WhitespaceTokens(s) ==
    IF s = <<>> THEN << <<>> >>
    ELSE LET rest == WhitespaceTokens(Tail(s))
         IN  IF Head(s) \in {" ", "\n"}
             THEN << <<>> >> \o rest
             ELSE << <<Head(s)>> \o Head(rest) >> \o Tail(rest)

\* C6: when no whitespace-delimited token of the text is wider than
\* usable_width, no line of the wrap loop is wider than usable_width.
C6_LinesFit ==
    (Wrapped /\ \A t \in Range(WhitespaceTokens(text)) : ~IsWide(t)) =>
        \A i \in DOMAIN lines : ~IsWide(lines[i])

\* The number of lines the drawing area holds: the first at y = 5, one
\* every font_size + 2, none reaching below display_height - 5.
FitLines ==
    CHOOSE n \in 0..EPD_WIDTH :
        /\ 5 + n * (MessageFontSize + 2) <= EPD_WIDTH - 5
        /\ 5 + (n + 1) * (MessageFontSize + 2) > EPD_WIDTH - 5

\* C7: the draw loop draws the first min(M, N) of the M wrapped lines, in
\* order, N being the number of lines the drawing area holds.
C7_TruncationKeepsPrefix ==
    pc = "done" =>
        LET n == Min(Len(lines), FitLines)
        IN  /\ Len(drawn) = n
            /\ \A k \in 1..n :
                  /\ drawn[k].line = lines[k]
                  /\ drawn[k].y = 5 + (k - 1) * (MessageFontSize + 2)

C7_Witness ==
    /\ pc = "done"
    /\ FitLines > 0
    /\ Len(lines) > FitLines
    /\ lines[FitLines] # lines[FitLines + 1]

C10_NoEmptyLine ==
    Wrapped => \A i \in DOMAIN lines : lines[i] # <<>>

====
